---- MODULE Spec2Model ----
(***************************************************************************)
(* A model of claudeli's session orchestration core (src/src/spawnClaude.ts *)
(* and src/src/types.ts): the process-wide registry of pending permission  *)
(* requests, the registry of abort controllers, one spawnClaude invocation  *)
(* consuming the engine's event stream, and spawnClaudeHeadless with the    *)
(* collector it puts behind such an invocation.                             *)
(*                                                                          *)
(* The engine (query() of the SDK) is a black box: it may deliver any       *)
(* event, call canUseTool, end the stream or throw at any moment while an   *)
(* invocation is streaming.  JavaScript is single threaded, so every        *)
(* handler below (one loop iteration, one callback, one timer, one exported *)
(* function call) is one atomic action.                                     *)
(***************************************************************************)
EXTENDS Integers, Sequences, FiniteSets, TLC

\* ------------------------------------------------------------------ bounds
\* the engine delivers events while the output holds fewer messages than this
MaxOut == 4
\* canUseTool calls made by the engine (each draws at most one fresh uuid)
MaxCalls == 2
\* Date.now() takes the values 0..MaxClock
MaxClock == 1
\* the longest stream a scripted engine delivers
MaxScript == 3
\* the handlers registered with onMessage
MaxHandlers == 1
\* the lines written to the stream of createStreamWrapper, over all writes
MaxWritten == 4

\* ------------------------------------------------------------------ values
Undefined == "undefined"
SessionIds == {"s1", "s2"}
\* the invocations (one AbortController each); Spec starts MainRuns only
Runs == {"A", "B"}
MainRuns == {"A"}
Commands == {"hello", ""}
Errors == {"Err", "ErrNoMessage"}
ToolInput == "input"

\* JavaScript truthiness of an optional string
Truthy(x) == x \notin {Undefined, ""}

\* (error as Error).message
ErrorMessage(e) == IF e = "Err" THEN "engine failure" ELSE ""

\* ---------------------------------------------------------------- types.ts
ApprovableTools ==
  <<"Write", "Edit", "Bash", "MultiEdit", "Glob", "WebSearch", "WebFetch", "Bash", "MCPTool">>

\* Glob is missing from the list
isApprovableToolWithoutGlob(value) ==
  value \in {"Write", "Edit", "Bash", "MultiEdit", "WebSearch", "WebFetch", "MCPTool"}
isApprovableTool(value) == \E n \in 1..Len(ApprovableTools) : ApprovableTools[n] = value

\* the tool names the engine asks about in this model
ToolNames == {"Bash", "Read"}
\* every name of the ToolType enum, and names outside it (toolName is a string)
ToolType ==
  {"Read", "Write", "Edit", "Bash", "Grep", "Glob", "LS", "MultiEdit", "NotebookRead",
   "NotebookEdit", "WebFetch", "TodoRead", "TodoWrite", "WebSearch", "Task", "MCPTool"}
AnyToolNames == ToolType \cup {"bash", "mcp__server__tool", ""}

\* ------------------------------------------------------- permission results
Allow(input) == [behavior |-> "allow", message |-> Undefined, updatedInput |-> input]
Deny(msg) == [behavior |-> "deny", message |-> msg, updatedInput |-> Undefined]
NoResult == [behavior |-> Undefined, message |-> Undefined, updatedInput |-> Undefined]

\* the request is let through when it cannot be routed
NoSessionAllows == Allow("input")
NoSessionDecision == Deny("Cannot approve permission without a session ID")
\* the timeout answers with the message of the other deny
TimeoutWrongMessage == Deny("Cannot approve permission without a session ID")
TimeoutDecision == Deny("Permission request timed out")
ImmediateAllow(input) == Allow(input)

\* what a caller of handlePermissionResponse may supply
ExternalDecisions == {Allow("edited input"), Deny("denied by user")}

\* ------------------------------------------------------- outward messages
\* message.content of an engine event: an array of blocks, a string or nothing
Arr(items) == [kind |-> "array", items |-> items]
NoContent == [kind |-> "undefined", items |-> <<>>]
\* JavaScript truthiness of a content value (every array is truthy)
ContentTruthy(c) == c.kind = "array" \/ c.kind = "string"
IsNonEmptyArray(c) == c.kind = "array" /\ Len(c.items) > 0

NoData == [shape |-> "none", type |-> Undefined, content |-> NoContent, session_id |-> Undefined]
NoPayload == [toolName |-> Undefined, input |-> Undefined, requestId |-> 0]
Msg(type, sid) ==
  [type |-> type, sessionId |-> sid, data |-> NoData, permissionPayload |-> NoPayload,
   error |-> Undefined, exitCode |-> -1, isNewSession |-> FALSE]

\* --------------------------------------------------------- engine events
InitEvents ==
  {[type |-> "system", subtype |-> "init", session_id |-> s, content |-> NoContent] :
     s \in SessionIds}
AssistantEvents ==
  {[type |-> "assistant", subtype |-> Undefined, session_id |-> "s1", content |-> Arr(<<"text">>)]}
UserEvents ==
  {[type |-> "user", subtype |-> Undefined, session_id |-> "s1", content |-> Arr(<<"tool_result">>)]}
ResultEvents ==
  {[type |-> "result", subtype |-> st, session_id |-> "s1", content |-> NoContent] :
     st \in {"success", "error_during_execution"}}
OtherEvents ==
  {[type |-> "stream_event", subtype |-> Undefined, session_id |-> "s1", content |-> NoContent]}
Events == InitEvents \cup AssistantEvents \cup UserEvents \cup ResultEvents \cup OtherEvents
\* the shapes the conversion tells apart: assistant turns without content or
\* with an empty array, user turns with a string or an empty array, system
\* events other than init
StringContent == [kind |-> "string", items |-> <<>>]
EdgeEvents ==
  {[type |-> "assistant", subtype |-> Undefined, session_id |-> "s1", content |-> c] :
     c \in {NoContent, Arr(<<>>)}}
  \cup {[type |-> "user", subtype |-> Undefined, session_id |-> "s1", content |-> c] :
          c \in {StringContent, Arr(<<>>)}}
  \cup {[type |-> "system", subtype |-> "compact_boundary", session_id |-> "s1",
          content |-> NoContent]}
AllEvents == Events \cup EdgeEvents

VARIABLES
  pc,                        \* per invocation: idle, streaming, returned, threw
  resume,                    \* options.resume
  command,                   \* the prompt
  capturedSessionId,
  sessionCreatedSent,
  processKey,
  doneCalled,                \* receivedResult has been resolved
  aborted,                   \* controller.signal.aborted
  out,                       \* what sendMessage delivered to the invocation's output
  retval,                    \* the value spawnClaude resolved with
  thrown,                    \* the failure spawnClaude rejected with
  activeClaudeControllers,   \* key -> the invocation whose controller it holds
  pendingPermissionRequests, \* the Map, as its entries in insertion order
  calls,                     \* the canUseTool calls and their promises
  timers,                    \* the armed setTimeout handles
  now,                       \* the last value Date.now() returned
  engine,                    \* per invocation: the stream query() will deliver
  headless,                  \* per invocation: the spawnClaudeHeadless call around it
  wrapper,                   \* the stream of one createStreamWrapper() and its handlers
  lastOp                     \* the last exported call and what it returned

vars ==
  <<pc, resume, command, capturedSessionId, sessionCreatedSent, processKey, doneCalled,
    aborted, out, retval, thrown, activeClaudeControllers,
    pendingPermissionRequests, calls, timers, now, engine, headless, wrapper, lastOp>>

runVars ==
  <<pc, resume, command, capturedSessionId, sessionCreatedSent, processKey, doneCalled,
    out, retval, thrown, engine, headless>>

NoOp == [op |-> "none", sid |-> Undefined, rid |-> 0, response |-> NoResult, ret |-> FALSE]

\* ------------------------------------------------ Map<string, AbortController>
CtlHas(m, k) == k \in DOMAIN m
CtlSet(m, k, v) == [x \in (DOMAIN m) \cup {k} |-> IF x = k THEN v ELSE m[x]]
\* a delete that removes nothing
CtlDeleteNothing(m, k) == m
CtlDelete(m, k) == [x \in (DOMAIN m) \ {k} |-> m[x]]

\* ------------------------------------------- Map<string, pending> (ordered)
PendIndex(m, k) == {n \in 1..Len(m) : m[n].key = k}
PendSet(m, k, v) ==
  IF PendIndex(m, k) = {}
  THEN Append(m, v)
  ELSE [n \in 1..Len(m) |-> IF m[n].key = k THEN v ELSE m[n]]
\* a delete that removes nothing
PendDeleteNothing(m, k) == m
PendDelete(m, k) == SelectSeq(m, LAMBDA e : e.key # k)

\* ------------------------------------------------- the engine's stream
\* The async iterator query() returns.  A free engine delivers any event at
\* any moment; a scripted engine delivers the events of its script in order,
\* pos of them so far, and ends the stream only after the last one.
FreeEngine == [scripted |-> FALSE, script |-> <<>>, pos |-> 0]
Scripted(s) == [scripted |-> TRUE, script |-> s, pos |-> 0]
Delivers(e, ev) == e.scripted => (e.pos < Len(e.script) /\ ev = e.script[e.pos + 1])
Exhausted(e) == e.scripted => e.pos = Len(e.script)
Advance(e) == IF e.scripted THEN [e EXCEPT !.pos = @ + 1] ELSE e

\* ------------------------------------------------- spawnClaudeHeadless
\* options as the caller of spawnClaudeHeadless passes them
Options(r, mode) == [resume |-> r, permissionMode |-> mode]
PermissionModes == {Undefined, "default"}
\* lines 600 to 603: the spread keeps every option but the permission mode
HeadlessOptions(options) == [options EXCEPT !.permissionMode = "bypassPermissions"]

NoHeadlessResult == [sessionId |-> Undefined, messages |-> <<>>, exitCode |-> -1]
\* lines 552 to 554: messages, finalSessionId, finalExitCode
CollectorInit == [messages |-> <<>>, finalSessionId |-> Undefined, finalExitCode |-> 0]
\* an invocation that spawnClaudeHeadless did not make
NoHeadless ==
  [state |-> "none", caller |-> Options(Undefined, Undefined),
   options |-> Options(Undefined, Undefined), collector |-> CollectorInit,
   result |-> NoHeadlessResult]

\* lines 26 to 37 and 559 to 566: the line sendMessage writes, parsed again.
\* JSON drops the properties whose value is undefined, which the records here
\* hold as Undefined, -1 (exitCode) and NoData (data).
Payload(message) == [type |-> "claude-chat", content |-> message]
\* msg.exitCode || 0
ExitCodeOr0(msg) == IF msg.exitCode \in {-1, 0} THEN 0 ELSE msg.exitCode
\* only converted messages are collected, content arrays are not
CollectsMessagesOnly(msg) == msg.type = "claude-response" /\ msg.data.shape = "message"
\* line 584
Collects(msg) == msg.type = "claude-response" /\ msg.data # NoData
\* lines 567 to 591, for one parsed line
CollectorWrite(st, payload) ==
  LET msg == payload.content
  IN [messages |->
        IF Collects(msg)
        THEN Append(st.messages, [type |-> "claude-response", content |-> msg.data])
        ELSE st.messages,
      finalSessionId |->
        IF msg.type \in {"session-created", "claude-complete"} /\ Truthy(msg.sessionId)
        THEN msg.sessionId
        ELSE st.finalSessionId,
      finalExitCode |->
        IF msg.type = "claude-complete" THEN ExitCodeOr0(msg) ELSE st.finalExitCode]
RECURSIVE CollectorWrites(_, _)
CollectorWrites(st, msgs) ==
  IF msgs = <<>>
  THEN st
  ELSE CollectorWrites(CollectorWrite(st, Payload(Head(msgs))), Tail(msgs))
\* the writes that take the output of a headless invocation from o to o2
Collect(h, o, o2) ==
  IF h.state = "none"
  THEN h
  ELSE [h EXCEPT !.collector = CollectorWrites(@, SubSeq(o2, Len(o) + 1, Len(o2)))]
\* lines 609 to 618: spawnClaude resolved with sessionId
Returned(h, sessionId) ==
  IF h.state = "none"
  THEN h
  ELSE LET final == IF ~Truthy(h.collector.finalSessionId) /\ Truthy(sessionId)
                    THEN sessionId
                    ELSE h.collector.finalSessionId
       IN [h EXCEPT !.state = "done",
                    !.result = [sessionId |-> IF Truthy(final) THEN final ELSE "",
                                messages |-> h.collector.messages,
                                exitCode |-> h.collector.finalExitCode]]
\* lines 619 to 626: spawnClaude rejected
Caught(h) ==
  IF h.state = "none"
  THEN h
  ELSE [h EXCEPT !.state = "done",
                 !.result = [sessionId |-> IF Truthy(h.collector.finalSessionId)
                                           THEN h.collector.finalSessionId
                                           ELSE "",
                             messages |-> h.collector.messages,
                             exitCode |-> IF h.collector.finalExitCode = 0
                                          THEN 1
                                          ELSE h.collector.finalExitCode]]

\* ------------------------------- createStreamWrapper: lines 492 to 525
\* A line of a chunk is the JSON text of a message, text that is not JSON, or
\* blank.  JSON.parse gives the message back for the first kind and throws
\* for the second; the filter of line 504 drops the third.
JsonLine(message) == [kind |-> "json", value |-> message]
GarbageLine == [kind |-> "garbage", value |-> Msg(Undefined, Undefined)]
BlankLine == [kind |-> "blank", value |-> Msg(Undefined, Undefined)]
Lines ==
  {JsonLine(Msg("session-created", "s1")), JsonLine(Msg("claude-complete", "s1")),
   GarbageLine, BlankLine}
\* chunk.toString().split('\n').filter(line => line.trim())
NonBlank(chunk) == SelectSeq(chunk, LAMBDA l : l.kind # "blank")
ParseFails(line) == line.kind = "garbage"
\* lines 505 to 508 inside the try of line 500: the messages parsed before
\* the first line that throws
RECURSIVE Parsed(_)
Parsed(lines) ==
  IF lines = <<>> \/ ParseFails(Head(lines))
  THEN <<>>
  ELSE <<Head(lines).value>> \o Parsed(Tail(lines))
\* line 510: the catch was entered
Throws(lines) == \E n \in 1..Len(lines) : ParseFails(lines[n])

\* handlers, what each call handler(message) delivered, the callback(error)
\* calls so far, whether the stream was destroyed; written is the history of
\* every line written to the stream
NewWrapper ==
  [handlers |-> 0, delivered |-> <<>>, errors |-> 0, destroyed |-> FALSE, written |-> <<>>]

\* handlers.forEach(handler => handler(message)) for each parsed message
RECURSIVE Deliveries(_, _)
Deliveries(messages, handlers) ==
  IF messages = <<>>
  THEN <<>>
  ELSE [h \in 1..handlers |-> [handler |-> h, message |-> Head(messages)]]
       \o Deliveries(Tail(messages), handlers)

InitState ==
  /\ pc = [i \in Runs |-> "idle"]
  /\ resume = [i \in Runs |-> Undefined]
  /\ command = [i \in Runs |-> ""]
  /\ capturedSessionId = [i \in Runs |-> Undefined]
  /\ sessionCreatedSent = [i \in Runs |-> FALSE]
  /\ processKey = [i \in Runs |-> Undefined]
  /\ doneCalled = [i \in Runs |-> FALSE]
  /\ aborted = [i \in Runs |-> FALSE]
  /\ out = [i \in Runs |-> <<>>]
  /\ retval = [i \in Runs |-> Undefined]
  /\ thrown = [i \in Runs |-> Undefined]
  /\ activeClaudeControllers = <<>>
  /\ pendingPermissionRequests = <<>>
  /\ calls = <<>>
  /\ timers = {}
  /\ now = 0
  /\ lastOp = NoOp
  /\ headless = [i \in Runs |-> NoHeadless]
  /\ wrapper = NewWrapper

Init == InitState /\ engine = [i \in Runs |-> FreeEngine]

\* onMessage(handler): lines 520 to 522
OnMessage ==
  /\ wrapper.handlers < MaxHandlers
  /\ wrapper' = [wrapper EXCEPT !.handlers = @ + 1]
  /\ lastOp' = NoOp
  /\ UNCHANGED <<runVars, aborted, activeClaudeControllers, pendingPermissionRequests,
                 calls, timers, now>>

\* stream.write(chunk): lines 499 to 512.  After callback(error) the stream is
\* errored: depending on the runtime's autoDestroy it is destroyed, and a
\* destroyed stream answers a later write without calling write() at all.
WrapperWrite(chunk) ==
  /\ Len(wrapper.written) + Len(chunk) <= MaxWritten
  /\ LET lines == NonBlank(chunk)
     IN \E destroy \in BOOLEAN :
          wrapper' =
            IF wrapper.destroyed
            THEN [wrapper EXCEPT !.written = @ \o chunk]
            ELSE [wrapper EXCEPT
                    !.written = @ \o chunk,
                    !.delivered = @ \o Deliveries(Parsed(lines), wrapper.handlers),
                    !.errors = IF Throws(lines) THEN @ + 1 ELSE @,
                    !.destroyed = Throws(lines) /\ destroy]
  /\ lastOp' = NoOp
  /\ UNCHANGED <<runVars, aborted, activeClaudeControllers, pendingPermissionRequests,
                 calls, timers, now>>

\* ----------------------------------------------------------- sendMessage
\* sendMessage(output, message) for invocation i's output
Send(o, message) == Append(o, message)

\* ------------------------------------------ spawnClaude: lines 106 to 291
\* Date.now() returns t, no earlier than the value it returned before
ProcessKey(captured, t) == IF Truthy(captured) THEN captured ELSE ToString(t)

SpawnClaude(i, r, cmd) ==
  /\ pc[i] = "idle"
  /\ \E t \in now..MaxClock :
       /\ now' = (IF Truthy(r) THEN now ELSE t)
       /\ processKey' = [processKey EXCEPT ![i] = ProcessKey(r, t)]
       /\ activeClaudeControllers' = CtlSet(activeClaudeControllers, ProcessKey(r, t), i)
  /\ resume' = [resume EXCEPT ![i] = r]
  /\ command' = [command EXCEPT ![i] = cmd]
  /\ capturedSessionId' = [capturedSessionId EXCEPT ![i] = r]
  /\ sessionCreatedSent' = [sessionCreatedSent EXCEPT ![i] = FALSE]
  /\ pc' = [pc EXCEPT ![i] = "streaming"]
  /\ lastOp' = NoOp
  /\ UNCHANGED <<wrapper, doneCalled, aborted, out, retval, thrown,
                 pendingPermissionRequests, calls, timers, engine>>

\* spawnClaude called directly
Start(i, r, cmd) == SpawnClaude(i, r, cmd) /\ UNCHANGED headless

\* spawnClaudeHeadless: lines 548 to 607, up to spawnClaude's first await
SpawnClaudeHeadless(i, options, cmd) ==
  /\ headless[i].state = "none"
  /\ SpawnClaude(i, HeadlessOptions(options).resume, cmd)
  /\ headless' = [headless EXCEPT ![i] =
                    [NoHeadless EXCEPT !.state = "running", !.caller = options,
                                       !.options = HeadlessOptions(options)]]

\* ------------------------------------------------ the promise of one call
\* resolve(result) of call c's promise: only the first resolution settles it
\* the resolver is never called
ResolveForgotten(cs, c, result, by) == cs
Resolve(cs, c, result, by) ==
  [cs EXCEPT ![c] =
     [@ EXCEPT !.resolveCount = @ + 1,
               !.state = "returned",
               !.result = IF cs[c].state = "pending" THEN result ELSE @,
               !.settledBy = IF cs[c].state = "pending" THEN by ELSE @]]

\* --------------------------------------------- canUseTool: lines 200 to 259
CompositeKey(r, requestId) == r \o ":" \o ToString(requestId)

\* sessionId stored with the pending request: capturedSessionId || ''
StoredSessionId(captured) == IF Truthy(captured) THEN captured ELSE ""

PermissionRequest(toolName, input, requestId, sid) ==
  [Msg("permission-request", sid) EXCEPT
     !.permissionPayload = [toolName |-> toolName, input |-> input, requestId |-> requestId]]

\* the promise is settled as soon as it is built
NewCallSettled(i, toolName, requestId, state, result, by) ==
  [run |-> i, toolName |-> toolName, input |-> ToolInput, requestId |-> requestId,
   compositeKey |-> CompositeKey(resume[i], requestId), sessionId |-> capturedSessionId[i],
   state |-> "returned", result |-> TimeoutDecision,
   resolveCount |-> 0, settledBy |-> by, supplied |-> NoResult]
NewCall(i, toolName, requestId, state, result, by) ==
  [run |-> i, toolName |-> toolName, input |-> ToolInput, requestId |-> requestId,
   compositeKey |-> CompositeKey(resume[i], requestId), sessionId |-> capturedSessionId[i], state |-> state, result |-> result,
   resolveCount |-> 0, settledBy |-> by, supplied |-> NoResult]

CanUseTool(i, toolName) ==
  /\ pc[i] = "streaming"
  /\ Len(calls) < MaxCalls
  /\ LET c == Len(calls) + 1
         requestId == c
         key == CompositeKey(resume[i], requestId)
     IN IF isApprovableTool(toolName)
        THEN IF ~Truthy(capturedSessionId[i])
             THEN /\ calls' = Append(calls, NewCall(i, toolName, 0, "returned",
                                                    NoSessionDecision, "no-session"))
                  /\ UNCHANGED <<out, pendingPermissionRequests, timers>>
             ELSE /\ out' = [out EXCEPT ![i] =
                               Send(@, PermissionRequest(toolName, ToolInput, requestId,
                                                         capturedSessionId[i]))]
                  /\ timers' = timers \cup {c}
                  /\ pendingPermissionRequests' =
                       PendSet(pendingPermissionRequests, key,
                               [key |-> key, requestId |-> requestId,
                                sessionId |-> StoredSessionId(capturedSessionId[i]),
                                resolve |-> c, timeout |-> c])
                  /\ calls' = Append(calls, NewCall(i, toolName, requestId, "pending",
                                                    NoResult, "none"))
        ELSE /\ calls' = Append(calls, NewCall(i, toolName, 0, "returned",
                                               ImmediateAllow(ToolInput), "immediate"))
             /\ UNCHANGED <<out, pendingPermissionRequests, timers>>
  /\ headless' = [headless EXCEPT ![i] = Collect(@, out[i], out'[i])]
  /\ lastOp' = NoOp
  /\ UNCHANGED <<wrapper, pc, resume, command, capturedSessionId, sessionCreatedSent, processKey,
                 doneCalled, aborted, retval, thrown, activeClaudeControllers, now,
                 engine>>

\* the setTimeout callback of call c: lines 234 to 241
Timeout(c) ==
  /\ c \in timers
  /\ timers' = timers \ {c}
  /\ pendingPermissionRequests' =
       PendDelete(pendingPermissionRequests, calls[c].compositeKey)
  /\ calls' = Resolve(calls, c, TimeoutDecision, "timeout")
  /\ lastOp' = NoOp
  /\ UNCHANGED <<wrapper, runVars, aborted, activeClaudeControllers, now>>

\* ------------------------------------- handlePermissionResponse: lines 53 to 71
\* either field is enough
MatchesEither(pending, sessionId, requestId) ==
  pending.sessionId = sessionId \/ pending.requestId = requestId
Matches(pending, sessionId, requestId) ==
  pending.sessionId = sessionId /\ pending.requestId = requestId

\* the entries the for loop stops at: the first match in insertion order
FirstMatch(m, sessionId, requestId) ==
  {n \in 1..Len(m) :
     /\ Matches(m[n], sessionId, requestId)
     /\ \A k \in 1..(n - 1) : ~Matches(m[k], sessionId, requestId)}

\* the timer is left armed
ClearTimeoutForgotten(ts, t) == ts
ClearTimeout(ts, t) == ts \ {t}

HandlePermissionResponse(sessionId, requestId, response) ==
  /\ IF FirstMatch(pendingPermissionRequests, sessionId, requestId) # {}
     THEN LET n == CHOOSE k \in FirstMatch(pendingPermissionRequests, sessionId, requestId) : TRUE
              pending == pendingPermissionRequests[n]
          IN /\ timers' = ClearTimeout(timers, pending.timeout)
             /\ calls' = [Resolve(calls, pending.resolve, response, "response")
                            EXCEPT ![pending.resolve].supplied = response]
             /\ pendingPermissionRequests' = PendDelete(pendingPermissionRequests, pending.key)
             /\ lastOp' = [op |-> "handlePermissionResponse", sid |-> sessionId,
                           rid |-> requestId, response |-> response, ret |-> TRUE]
     ELSE /\ lastOp' = [op |-> "handlePermissionResponse", sid |-> sessionId,
                        rid |-> requestId, response |-> response, ret |-> FALSE]
          /\ UNCHANGED <<timers, calls, pendingPermissionRequests>>
  /\ UNCHANGED <<wrapper, runVars, aborted, activeClaudeControllers, now>>

\* ------------------------------- spawnClaude, the loop body: lines 294 to 426
\* every user turn is converted, whatever its content
ConvertedAnyUser(ev) ==
  IF ev.type = "assistant"
  THEN [shape |-> "message", type |-> "assistant", content |-> ev.content,
        session_id |-> ev.session_id]
  ELSE IF ev.type = "user"
       THEN [shape |-> "message", type |-> "tool_result", content |-> ev.content,
             session_id |-> Undefined]
       ELSE NoData
\* the converted message of lines 301 to 347, NoData when there is none
Converted(ev) ==
  IF ev.type = "assistant"
  THEN [shape |-> "message", type |-> "assistant", content |-> ev.content,
        session_id |-> ev.session_id]
  ELSE IF ev.type = "user" /\ IsNonEmptyArray(ev.content)
       THEN [shape |-> "message", type |-> "tool_result", content |-> ev.content,
             session_id |-> Undefined]
       ELSE NoData

Response(data, sid) == [Msg("claude-response", sid) EXCEPT !.data = data]
ContentData(content) ==
  [shape |-> "content", type |-> Undefined, content |-> content, session_id |-> Undefined]

\* the content array is sent before the converted message
ResponsesContentFirst(ev, sid) ==
  LET conv == Converted(ev)
  IN IF conv = NoData
     THEN <<>>
     ELSE (IF conv.type = "assistant" /\ ContentTruthy(conv.content)
           THEN <<Response(ContentData(conv.content), sid)>>
           ELSE <<>>) \o <<Response(conv, sid)>>
\* lines 349 to 365
Responses(ev, sid) ==
  LET conv == Converted(ev)
  IN IF conv = NoData
     THEN <<>>
     ELSE <<Response(conv, sid)>> \o
          (IF conv.type = "assistant" /\ ContentTruthy(conv.content)
           THEN <<Response(ContentData(conv.content), sid)>>
           ELSE <<>>)

IsInit(ev) == ev.type = "system" /\ ev.subtype = "init"
\* line 371: the SDK reports a session other than the one known
\* every init event counts as a new session
DiffersAnyInit(ev, captured) == IsInit(ev) /\ Truthy(ev.session_id)
Differs(ev, captured) == IsInit(ev) /\ Truthy(ev.session_id) /\ ev.session_id # captured
\* lines 373 and 392
NextSessionId(ev, captured) ==
  IF IsInit(ev) /\ Truthy(ev.session_id) THEN ev.session_id ELSE captured
\* lines 376 to 379
RebindControllers(m, pkey, captured, controller) ==
  IF pkey # captured /\ Truthy(captured)
  THEN CtlSet(CtlDelete(m, pkey), captured, controller)
  ELSE m
SessionCreated(sid) == Msg("session-created", sid)

\* line 416
ExitCode(subtype) == IF subtype = "success" THEN 0 ELSE 1
\* lines 422 and 470
IsNewSession(captured, cmd) == ~Truthy(captured) /\ Truthy(cmd)
Complete(exitCode, captured, cmd) ==
  [Msg("claude-complete", captured) EXCEPT
     !.exitCode = exitCode, !.isNewSession = IsNewSession(captured, cmd)]
\* line 412
FinalSessionId(captured, pkey) == IF Truthy(captured) THEN captured ELSE pkey

StreamEvent(i, ev) ==
  /\ pc[i] = "streaming"
  /\ Len(out[i]) < MaxOut
  /\ Delivers(engine[i], ev)
  /\ engine' = [engine EXCEPT ![i] = Advance(@)]
  /\ LET captured == NextSessionId(ev, capturedSessionId[i])
         differs == Differs(ev, capturedSessionId[i])
         out1 == out[i] \o Responses(ev, capturedSessionId[i])
         out2 == IF differs /\ ~sessionCreatedSent[i]
                 THEN Send(out1, SessionCreated(captured))
                 ELSE out1
         ctl1 == IF differs
                 THEN RebindControllers(activeClaudeControllers, processKey[i], captured, i)
                 ELSE activeClaudeControllers
     IN /\ capturedSessionId' = [capturedSessionId EXCEPT ![i] = captured]
        /\ sessionCreatedSent' = [sessionCreatedSent EXCEPT ![i] = @ \/ differs]
        /\ IF ev.type = "result"
           THEN /\ doneCalled' = [doneCalled EXCEPT ![i] = TRUE]
                /\ activeClaudeControllers' =
                     CtlDelete(ctl1, FinalSessionId(captured, processKey[i]))
                /\ out' = [out EXCEPT ![i] =
                             Send(out2, Complete(ExitCode(ev.subtype), captured, command[i]))]
           ELSE /\ activeClaudeControllers' = ctl1
                /\ out' = [out EXCEPT ![i] = out2]
                /\ UNCHANGED doneCalled
  /\ headless' = [headless EXCEPT ![i] = Collect(@, out[i], out'[i])]
  /\ lastOp' = NoOp
  /\ UNCHANGED <<wrapper, pc, resume, command, processKey, aborted, retval, thrown,
                 pendingPermissionRequests, calls, timers, now>>

\* the stream is exhausted: lines 428 to 448
StreamEnd(i) ==
  /\ pc[i] = "streaming"
  /\ Exhausted(engine[i])
  /\ pc' = [pc EXCEPT ![i] = "returned"]
  /\ retval' = [retval EXCEPT ![i] = capturedSessionId[i]]
  /\ headless' = [headless EXCEPT ![i] = Returned(@, capturedSessionId[i])]
  /\ lastOp' = NoOp
  /\ UNCHANGED <<wrapper, resume, command, capturedSessionId, sessionCreatedSent, processKey,
                 doneCalled, aborted, out, thrown, activeClaudeControllers,
                 pendingPermissionRequests, calls, timers, now, engine>>

\* the catch block: lines 449 to 475
ErrorText(e) == IF Truthy(ErrorMessage(e)) THEN ErrorMessage(e) ELSE "Unknown error occurred"
ErrorMsg(e, sid) == [Msg("claude-error", sid) EXCEPT !.error = ErrorText(e)]
\* the completion message is forgotten
CatchMessagesNoComplete(o, e, captured, cmd) == Send(o, ErrorMsg(e, captured))
\* lines 459 to 472
CatchMessages(o, e, captured, cmd) ==
  Send(Send(o, ErrorMsg(e, captured)), Complete(1, captured, cmd))
\* line 456, Date.now() returning t
CatchKey(captured, t) == IF Truthy(captured) THEN captured ELSE ToString(t)

StreamThrow(i, e) ==
  /\ pc[i] = "streaming"
  /\ \E t \in now..MaxClock :
       /\ now' = (IF Truthy(capturedSessionId[i]) THEN now ELSE t)
       /\ activeClaudeControllers' =
            CtlDelete(activeClaudeControllers, CatchKey(capturedSessionId[i], t))
  /\ out' = [out EXCEPT ![i] = CatchMessages(@, e, capturedSessionId[i], command[i])]
  /\ pc' = [pc EXCEPT ![i] = "threw"]
  /\ thrown' = [thrown EXCEPT ![i] = e]
  /\ headless' = [headless EXCEPT ![i] = Caught(Collect(@, out[i], out'[i]))]
  /\ lastOp' = NoOp
  /\ UNCHANGED <<wrapper, resume, command, capturedSessionId, sessionCreatedSent, processKey,
                 doneCalled, aborted, retval, pendingPermissionRequests, calls,
                 timers, engine>>

\* ----------------------------------------- abortClaudeSession: lines 481 to 489
AbortClaudeSession(sessionId) ==
  /\ IF CtlHas(activeClaudeControllers, sessionId)
     THEN /\ aborted' = [aborted EXCEPT ![activeClaudeControllers[sessionId]] = TRUE]
          /\ activeClaudeControllers' = CtlDelete(activeClaudeControllers, sessionId)
          /\ lastOp' = [NoOp EXCEPT !.op = "abortClaudeSession", !.sid = sessionId,
                                    !.ret = TRUE]
     ELSE /\ lastOp' = [NoOp EXCEPT !.op = "abortClaudeSession", !.sid = sessionId,
                                    !.ret = FALSE]
          /\ UNCHANGED <<aborted, activeClaudeControllers>>
  /\ UNCHANGED <<wrapper, runVars, pendingPermissionRequests, calls, timers, now>>

\* the keys a caller may name: session ids and the provisional Date.now() keys
AbortKeys == SessionIds \cup {ToString(t) : t \in 0..MaxClock}

\* ------------------------------------------------------------ specification
\* The session lifecycle: one invocation with a prompt, the events that move
\* its session id, produce output or complete it, its end, and aborts.
SessionEvents == InitEvents \cup AssistantEvents \cup ResultEvents

Next ==
  \/ \E i \in MainRuns, r \in SessionIds \cup {Undefined} : Start(i, r, "hello")
  \/ \E i \in MainRuns, ev \in SessionEvents : StreamEvent(i, ev)
  \/ \E i \in MainRuns : StreamEnd(i)
  \/ \E i \in MainRuns, e \in Errors : StreamThrow(i, e)
  \/ \E sessionId \in AbortKeys : AbortClaudeSession(sessionId)

Spec == Init /\ [][Next]_vars

\* The permission broker: one invocation (resuming s1 or starting afresh)
\* whose session id the engine may rebind, the engine's canUseTool calls, the
\* timers and the responses.
NextBroker ==
  \/ \E i \in MainRuns, r \in {"s1", Undefined} : Start(i, r, "hello")
  \/ \E i \in MainRuns, ev \in InitEvents : StreamEvent(i, ev)
  \/ \E i \in MainRuns : StreamEnd(i)
  \/ \E i \in MainRuns, toolName \in ToolNames : CanUseTool(i, toolName)
  \/ \E c \in 1..MaxCalls : Timeout(c)
  \/ \E sessionId \in SessionIds, requestId \in 1..MaxCalls, response \in ExternalDecisions :
       HandlePermissionResponse(sessionId, requestId, response)

SpecBroker == Init /\ [][NextBroker]_vars

\* The broker while the invocation may also fail and the caller may abort the
\* session it knows, for one approval-requiring tool and a caller that denies.
\* A timer that setTimeout armed and nobody cleared does fire: weak fairness
\* of each Timeout. Nothing obliges the caller ever to respond.
NextBrokerAbort ==
  \/ \E i \in MainRuns, r \in {"s1", Undefined} : Start(i, r, "hello")
  \/ \E i \in MainRuns, ev \in InitEvents : StreamEvent(i, ev)
  \/ \E i \in MainRuns : StreamEnd(i)
  \/ \E i \in MainRuns : StreamThrow(i, "Err")
  \/ \E i \in MainRuns : CanUseTool(i, "Bash")
  \/ \E c \in 1..MaxCalls : Timeout(c)
  \/ \E sessionId \in SessionIds, requestId \in 1..MaxCalls :
       HandlePermissionResponse(sessionId, requestId, Deny("denied by user"))
  \/ \E i \in MainRuns :
       pc[i] = "streaming" /\ AbortClaudeSession(capturedSessionId[i])

FairBroker ==
  Init /\ [][NextBrokerAbort]_vars /\ \A c \in 1..MaxCalls : WF_vars(Timeout(c))

\* The classification of tool names: one invocation, with or without a session
\* id, whose engine asks about any tool name.
NextTools ==
  \/ \E i \in MainRuns, r \in {"s1", Undefined} : Start(i, r, "hello")
  \/ \E i \in MainRuns : StreamEnd(i)
  \/ \E i \in MainRuns, toolName \in AnyToolNames : CanUseTool(i, toolName)

SpecTools == Init /\ [][NextTools]_vars

\* spawnClaudeHeadless: one headless invocation, with any options of the
\* caller, over any events, until the stream ends or the engine fails.
\* Whether an engine running under bypassPermissions still consults canUseTool
\* is the engine's contract, which the source does not show: this
\* specification has no canUseTool calls and decides nothing about them.
NextHeadless ==
  \/ \E i \in MainRuns, r \in {"s1", Undefined}, mode \in PermissionModes :
       SpawnClaudeHeadless(i, Options(r, mode), "hello")
  \/ \E i \in MainRuns, ev \in Events : StreamEvent(i, ev)
  \/ \E i \in MainRuns : StreamEnd(i)
  \/ \E i \in MainRuns, e \in Errors : StreamThrow(i, e)

SpecHeadless == Init /\ [][NextHeadless]_vars

\* Two invocations at once, each resuming s1 or starting afresh, with the
\* events that bind or complete a session, failures and aborts.
ConcurrentEvents ==
  {ev \in InitEvents : ev.session_id = "s2"} \cup {ev \in ResultEvents : ev.subtype = "success"}

NextConcurrent ==
  \/ \E i \in Runs, r \in {"s1", Undefined} : Start(i, r, "hello")
  \/ \E i \in Runs, ev \in ConcurrentEvents : StreamEvent(i, ev)
  \/ \E i \in Runs : StreamThrow(i, "Err")
  \/ \E sessionId \in SessionIds : AbortClaudeSession(sessionId)

SpecConcurrent == Init /\ [][NextConcurrent]_vars

\* createStreamWrapper: a caller registers handlers and writes chunks of
\* lines, well-formed or not, to the stream.
Chunks == UNION {[1..n -> Lines] : n \in 1..2}

NextWrapper ==
  \/ OnMessage
  \/ \E chunk \in Chunks : WrapperWrite(chunk)

SpecWrapper == Init /\ [][NextWrapper]_vars

\* One invocation over a stream fixed in advance: every sequence of at most
\* MaxScript engine events, with or without a prompt and a session to resume,
\* delivered in order until the stream ends or the engine fails.
Scripts == UNION {[1..n -> Events] : n \in 0..MaxScript}

InitStream ==
  /\ InitState
  /\ \E s \in Scripts :
       engine = [i \in Runs |-> IF i \in MainRuns THEN Scripted(s) ELSE FreeEngine]

NextStream ==
  \/ \E i \in MainRuns, r \in SessionIds \cup {Undefined}, cmd \in Commands : Start(i, r, cmd)
  \/ \E i \in MainRuns, ev \in Events : StreamEvent(i, ev)
  \/ \E i \in MainRuns : StreamEnd(i)
  \/ \E i \in MainRuns, e \in Errors : StreamThrow(i, e)

SpecStream == InitStream /\ [][NextStream]_vars

\* The conversion of events: one invocation over a stream fixed in advance
\* that may hold every shape of event.
InitNormalizer ==
  /\ InitState
  /\ \E s \in UNION {[1..n -> AllEvents] : n \in 0..MaxScript} :
       engine = [i \in Runs |-> IF i \in MainRuns THEN Scripted(s) ELSE FreeEngine]

NextNormalizer ==
  \/ \E i \in MainRuns, r \in {"s1", Undefined} : Start(i, r, "hello")
  \/ \E i \in MainRuns, ev \in AllEvents : StreamEvent(i, ev)
  \/ \E i \in MainRuns : StreamEnd(i)

SpecNormalizer == InitNormalizer /\ [][NextNormalizer]_vars

\* A headless invocation over a stream fixed in advance.
SpecHeadlessStream == InitStream /\ [][NextHeadless]_vars

\* ------------------------------------------------------------------ claims
Registered(c) == calls[c].requestId # 0
HasEntry(c) ==
  \E n \in 1..Len(pendingPermissionRequests) : pendingPermissionRequests[n].resolve = c
EntryFor(sessionId, requestId) ==
  \E n \in 1..Len(pendingPermissionRequests) :
    /\ pendingPermissionRequests[n].sessionId = sessionId
    /\ pendingPermissionRequests[n].requestId = requestId
IsResponse(op) == op.op = "handlePermissionResponse"

\* C1: a registered pending approval is settled at most once. Its resolver has
\* been invoked once exactly when its entry has left the registry, never twice,
\* and a handlePermissionResponse that returns true is the one settlement of
\* the request it names (so every later response for the pair returns false).
C1_SettledAtMostOnce ==
  /\ \A c \in 1..Len(calls) :
       Registered(c) =>
         /\ calls[c].resolveCount <= 1
         /\ (calls[c].resolveCount = 0) <=> HasEntry(c)
         /\ (calls[c].resolveCount = 1) <=> (calls[c].state = "returned")
  /\ (IsResponse(lastOp) /\ lastOp.ret) =>
       \E c \in 1..Len(calls) :
         /\ calls[c].sessionId = lastOp.sid
         /\ calls[c].requestId = lastOp.rid
         /\ calls[c].resolveCount = 1
         /\ calls[c].settledBy = "response"
  /\ \A c \in 1..Len(calls) :
       (/\ IsResponse(lastOp)
        /\ calls[c].sessionId = lastOp.sid
        /\ calls[c].requestId = lastOp.rid
        /\ calls[c].settledBy = "timeout") => ~lastOp.ret

\* a response arrives after the timeout has settled the request, and one
\* arrives after an earlier response has
C1_Witness ==
  /\ Len(calls) = 2
  /\ calls[1].settledBy = "response" /\ calls[1].resolveCount = 1
  /\ calls[2].settledBy = "timeout" /\ calls[2].resolveCount = 1
  /\ IsResponse(lastOp) /\ ~lastOp.ret
  /\ lastOp.sid = calls[1].sessionId /\ lastOp.rid = calls[1].requestId

\* C2: a request the timeout settled was resolved with a deny carrying the
\* message 'Permission request timed out', its entry is gone from the registry,
\* and a handlePermissionResponse for its (sessionId, requestId) returns false.
C2_TimeoutDenies ==
  \A c \in 1..Len(calls) :
    calls[c].settledBy = "timeout" =>
      /\ calls[c].state = "returned"
      /\ calls[c].result.behavior = "deny"
      /\ calls[c].result.message = "Permission request timed out"
      /\ ~HasEntry(c)
      /\ ~EntryFor(calls[c].sessionId, calls[c].requestId)
      /\ (/\ IsResponse(lastOp)
          /\ lastOp.sid = calls[c].sessionId
          /\ lastOp.rid = calls[c].requestId) => ~lastOp.ret

\* the timeout fired with no response before it, and a response came after
C2_Witness ==
  \E c \in 1..Len(calls) :
    /\ calls[c].settledBy = "timeout"
    /\ calls[c].supplied = NoResult
    /\ IsResponse(lastOp) /\ ~lastOp.ret
    /\ lastOp.sid = calls[c].sessionId /\ lastOp.rid = calls[c].requestId

\* C3: for an approval-requiring tool the decision canUseTool returns allows
\* only if a handlePermissionResponse for the request supplied an allow; with
\* no session id, and after a timeout, the decision is a deny.
ApprovalRequiring ==
  {"Write", "Edit", "MultiEdit", "Bash", "Glob", "WebFetch", "WebSearch", "MCPTool"}

C3_UnansweredNeverAllows ==
  \A c \in 1..Len(calls) :
    (calls[c].toolName \in ApprovalRequiring /\ calls[c].state = "returned") =>
      /\ calls[c].result.behavior \in {"allow", "deny"}
      /\ calls[c].result.behavior = "allow" =>
           /\ calls[c].settledBy = "response"
           /\ calls[c].supplied.behavior = "allow"
      /\ calls[c].settledBy \in {"no-session", "timeout"} =>
           calls[c].result.behavior = "deny"
      /\ calls[c].settledBy \in {"no-session", "timeout", "response"}

\* one call was denied for want of a session id, another allowed by a response
C3_Witness ==
  /\ Len(calls) = 2
  /\ calls[1].toolName = "Bash" /\ calls[1].settledBy = "no-session"
  /\ calls[2].toolName = "Bash" /\ calls[2].result.behavior = "allow"

\* C5: handlePermissionResponse returns true exactly when the registry holds
\* an entry with both the session id and the request id of the call; when it
\* returns false it changes nothing, and when it returns true it removes that
\* entry alone and settles no other call.
C5_ResponseContract ==
  [][IsResponse(lastOp') =>
       /\ lastOp'.ret = EntryFor(lastOp'.sid, lastOp'.rid)
       /\ ~lastOp'.ret =>
            UNCHANGED <<runVars, aborted, activeClaudeControllers,
                        pendingPermissionRequests, calls, timers, now>>
       /\ lastOp'.ret =>
            /\ pendingPermissionRequests' =
                 SelectSeq(pendingPermissionRequests,
                           LAMBDA e : ~(e.sessionId = lastOp'.sid /\ e.requestId = lastOp'.rid))
            /\ \A c \in 1..Len(calls) :
                 (calls[c].sessionId # lastOp'.sid \/ calls[c].requestId # lastOp'.rid) =>
                   calls'[c] = calls[c]]_vars

\* a response that names the session of one pending request and the request
\* id of another (issued under another session id) found nothing
C5_Witness ==
  /\ IsResponse(lastOp) /\ ~lastOp.ret
  /\ Len(pendingPermissionRequests) = 2
  /\ \E n, k \in 1..Len(pendingPermissionRequests) :
       /\ pendingPermissionRequests[n].sessionId = lastOp.sid
       /\ pendingPermissionRequests[n].requestId # lastOp.rid
       /\ pendingPermissionRequests[k].requestId = lastOp.rid
       /\ pendingPermissionRequests[k].sessionId # lastOp.sid

\* C4: every canUseTool call for an approval-requiring tool eventually returns
\* a decision, and its entry, if it registered one, eventually leaves the
\* registry, whatever the caller and the session do meanwhile.
C4_NeverHangs ==
  \A c \in 1..MaxCalls :
    (c <= Len(calls)) ~>
      (c <= Len(calls) /\ calls[c].state = "returned" /\ ~HasEntry(c))

\* the invocation was aborted and has ended, nobody responded, and the timer
\* settled the request
C4_Witness ==
  \E c \in 1..Len(calls) :
    /\ calls[c].settledBy = "timeout"
    /\ calls[c].supplied = NoResult
    /\ aborted[calls[c].run]
    /\ pc[calls[c].run] \in {"returned", "threw"}

\* C6: while the request a permission-request message announced under session
\* id S and request id R is unsettled, handlePermissionResponse(S, R, d)
\* returns true, resolves the call to d and cancels its timer; and a call a
\* response settled keeps that decision, with no timer left to time it out.
Announced(c, sessionId, requestId) ==
  /\ calls[c].requestId = requestId
  /\ \E k \in 1..Len(out[calls[c].run]) :
       /\ out[calls[c].run][k].type = "permission-request"
       /\ out[calls[c].run][k].sessionId = sessionId
       /\ out[calls[c].run][k].permissionPayload.requestId = requestId

C6_Correlation ==
  /\ [](\A c \in 1..Len(calls) :
          calls[c].settledBy = "response" =>
            /\ calls[c].state = "returned"
            /\ calls[c].result = calls[c].supplied
            /\ calls[c].result.message # "Permission request timed out"
            /\ c \notin timers)
  /\ [][\A c \in 1..Len(calls) :
          (/\ IsResponse(lastOp')
           /\ Announced(c, lastOp'.sid, lastOp'.rid)
           /\ calls[c].state = "pending") =>
            /\ lastOp'.ret
            /\ calls'[c].state = "returned"
            /\ calls'[c].result = lastOp'.response
            /\ c \notin timers']_vars

\* a request announced under a session id that a rebind assigned was denied
\* by the caller
C6_Witness ==
  \E c \in 1..Len(calls) :
    /\ calls[c].settledBy = "response"
    /\ calls[c].result = Deny("denied by user")
    /\ calls[c].sessionId # resume[calls[c].run]
    /\ Truthy(resume[calls[c].run])
    /\ IsResponse(lastOp) /\ lastOp.ret /\ lastOp.rid = calls[c].requestId

IsAbort(op) == op.op = "abortClaudeSession"
Holds(k, i) == CtlHas(activeClaudeControllers, k) /\ activeClaudeControllers[k] = i

\* C7: once a session-created message has announced a rebind, no second one
\* is emitted, every later message carries the announced session id, and while
\* the invocation is in flight (not aborted, not completed) its controller is
\* registered under that id and under no other key.
C7_Rebind ==
  \A i \in Runs :
    \A k \in 1..Len(out[i]) :
      out[i][k].type = "session-created" =>
        /\ \A j \in (k + 1)..Len(out[i]) :
             /\ out[i][j].type # "session-created"
             /\ out[i][j].sessionId = out[i][k].sessionId
        /\ (pc[i] = "streaming" /\ ~aborted[i] /\ ~doneCalled[i]) =>
             /\ Holds(out[i][k].sessionId, i)
             /\ \A key \in DOMAIN activeClaudeControllers :
                  Holds(key, i) => key = out[i][k].sessionId

\* C8 as stated: after a failure the last two messages are a claude-error
\* carrying the failure's message and a claude-complete with exitCode 1, and
\* the failure is re-raised.
C8_ErrorThenComplete ==
  \A i \in Runs :
    pc[i] = "threw" =>
      /\ thrown[i] \in Errors
      /\ Len(out[i]) >= 2
      /\ out[i][Len(out[i]) - 1].type = "claude-error"
      /\ out[i][Len(out[i]) - 1].error = ErrorMessage(thrown[i])
      /\ out[i][Len(out[i])].type = "claude-complete"
      /\ out[i][Len(out[i])].exitCode = 1

\* C8 as amended: the claude-error carries the failure's message, or the text
\* 'Unknown error occurred' when the failure has no message.
C8_ErrorThenCompleteAmended ==
  \A i \in Runs :
    pc[i] = "threw" =>
      /\ thrown[i] \in Errors
      /\ Len(out[i]) >= 2
      /\ out[i][Len(out[i]) - 1].type = "claude-error"
      /\ out[i][Len(out[i]) - 1].error =
           (IF ErrorMessage(thrown[i]) # ""
            THEN ErrorMessage(thrown[i])
            ELSE "Unknown error occurred")
      /\ out[i][Len(out[i])].type = "claude-complete"
      /\ out[i][Len(out[i])].exitCode = 1

\* the engine failed after a rebind, a response and a result event
C8_Witness ==
  \E i \in Runs :
    /\ pc[i] = "threw"
    /\ thrown[i] = "Err"
    /\ Len(out[i]) = 6
    /\ out[i][1].type = "session-created"
    /\ out[i][2].type = "claude-response"
    /\ out[i][4].type = "claude-complete"
    /\ out[i][5].error = "engine failure"

\* C9: once an invocation has returned, thrown or been aborted, no key of
\* activeClaudeControllers maps to its controller.
Ended(i) == pc[i] \in {"returned", "threw"} \/ aborted[i]

C9_NoEntryAfterEnd ==
  \A i \in Runs :
    Ended(i) => \A key \in DOMAIN activeClaudeControllers : ~Holds(key, i)

\* C10: abortClaudeSession(sessionId) returns true exactly when the registry
\* holds an entry under sessionId; it then aborts that entry's controller and
\* removes that entry alone; otherwise it changes nothing. Either way no entry
\* is left under sessionId, so an abort repeated at once returns false.
C10_AbortContract ==
  [][IsAbort(lastOp') =>
       /\ lastOp'.ret = CtlHas(activeClaudeControllers, lastOp'.sid)
       /\ ~CtlHas(activeClaudeControllers', lastOp'.sid)
       /\ lastOp'.ret =>
            /\ aborted'[activeClaudeControllers[lastOp'.sid]]
            /\ \A i \in Runs :
                 i # activeClaudeControllers[lastOp'.sid] => aborted'[i] = aborted[i]
            /\ DOMAIN activeClaudeControllers' =
                 (DOMAIN activeClaudeControllers) \ {lastOp'.sid}
            /\ \A key \in DOMAIN activeClaudeControllers' :
                 activeClaudeControllers'[key] = activeClaudeControllers[key]
       /\ ~lastOp'.ret =>
            UNCHANGED <<runVars, aborted, activeClaudeControllers,
                        pendingPermissionRequests, calls, timers, now>>]_vars

\* the session in flight was aborted under its rebound id, and the abort
\* repeated under that id found nothing
C10_Witness ==
  \E i \in Runs :
    /\ pc[i] = "streaming"
    /\ aborted[i]
    /\ Truthy(resume[i])
    /\ capturedSessionId[i] # resume[i]
    /\ IsAbort(lastOp) /\ ~lastOp.ret
    /\ lastOp.sid = capturedSessionId[i]

\* ---------------------------------------------------------------------- C11
\* C11: every claude-complete message, from the result path or from the
\* failure path, carries isNewSession = TRUE exactly when the invocation was
\* started without a session to resume and with a non-empty prompt, whatever
\* session id an init event has assigned since.
C11_NewSessionFlag ==
  \A i \in MainRuns : \A n \in 1..Len(out[i]) :
    out[i][n].type = "claude-complete" =>
      (out[i][n].isNewSession <=> (~Truthy(resume[i]) /\ Truthy(command[i])))

\* ---------------------------------------------------------------------- C12
\* the stream and the expected output of end-to-end scenario 1
Scenario1 ==
  <<[type |-> "system", subtype |-> "init", session_id |-> "s1", content |-> NoContent],
    [type |-> "assistant", subtype |-> Undefined, session_id |-> "s1",
     content |-> Arr(<<"text">>)],
    [type |-> "result", subtype |-> "success", session_id |-> "s1", content |-> NoContent]>>
Scenario1Output ==
  <<Msg("session-created", "s1"),
    [Msg("claude-response", "s1") EXCEPT
       !.data = [shape |-> "message", type |-> "assistant", content |-> Arr(<<"text">>),
                 session_id |-> "s1"]],
    [Msg("claude-response", "s1") EXCEPT
       !.data = [shape |-> "content", type |-> Undefined, content |-> Arr(<<"text">>),
                 session_id |-> Undefined]],
    [Msg("claude-complete", "s1") EXCEPT !.exitCode = 0, !.isNewSession = TRUE]>>

\* C12: an invocation with the prompt "hello" and no session to resume, whose
\* engine emits init{s1}, an assistant event with a content array and
\* result{success}, has delivered exactly session-created(s1), the converted
\* message, the content array and claude-complete(exitCode 0, isNewSession
\* true, sessionId s1) to its sink, and has returned "s1".
C12_Scenario1 ==
  \A i \in MainRuns :
    (/\ engine[i].scripted /\ engine[i].script = Scenario1
     /\ resume[i] = Undefined /\ command[i] = "hello"
     /\ pc[i] = "returned")
    => (out[i] = Scenario1Output /\ retval[i] = "s1")

\* ---------------------------------------------------------------------- C13
\* the init events among those consumed so far all report the resumed session
ResumedUnchanged(i) ==
  /\ engine[i].scripted
  /\ Truthy(resume[i])
  /\ \A k \in 1..engine[i].pos :
       IsInit(engine[i].script[k]) => engine[i].script[k].session_id = resume[i]
ResultConsumed(i) ==
  \E k \in 1..engine[i].pos : engine[i].script[k].type = "result"

\* C13: when resume is supplied and every init event reports that same id, no
\* session-created message is sent, the controller is registered under that id
\* and under no other key while it streams and no result has arrived, and every
\* claude-complete carries that id.
C13_ResumeQuiet ==
  \A i \in MainRuns :
    ResumedUnchanged(i) =>
      /\ \A n \in 1..Len(out[i]) : out[i][n].type # "session-created"
      /\ \A k \in DOMAIN activeClaudeControllers :
           activeClaudeControllers[k] = i => k = resume[i]
      /\ (pc[i] = "streaming" /\ ~ResultConsumed(i)) => Holds(resume[i], i)
      /\ \A n \in 1..Len(out[i]) :
           out[i][n].type = "claude-complete" => out[i][n].sessionId = resume[i]

\* a resumed run whose init event repeated the id has completed
C13_Witness ==
  \E i \in MainRuns :
    /\ ResumedUnchanged(i)
    /\ \E k \in 1..engine[i].pos : IsInit(engine[i].script[k])
    /\ \E n \in 1..Len(out[i]) : out[i][n].type = "claude-complete"
    /\ pc[i] = "returned"

\* ---------------------------------------------------------------------- C14
\* invocation i consumes a result event in this step
ConsumesResult(i) ==
  /\ engine[i].scripted
  /\ engine'[i].pos = engine[i].pos + 1
  /\ engine[i].script[engine'[i].pos].type = "result"

\* C14: the step that consumes a result event appends exactly one message to
\* the sink, a claude-complete with exitCode 0 for subtype success and 1 for
\* any other, carrying the session id known at that moment (so the result is
\* never forwarded as a claude-response); it releases the prompt generator and
\* leaves no registration of the invocation's controller.
C14_ResultCompletes ==
  [][\A i \in MainRuns :
       ConsumesResult(i) =>
         LET ev == engine[i].script[engine'[i].pos]
         IN /\ Len(out'[i]) = Len(out[i]) + 1
            /\ SubSeq(out'[i], 1, Len(out[i])) = out[i]
            /\ out'[i][Len(out'[i])].type = "claude-complete"
            /\ out'[i][Len(out'[i])].exitCode = (IF ev.subtype = "success" THEN 0 ELSE 1)
            /\ out'[i][Len(out'[i])].sessionId = capturedSessionId[i]
            /\ doneCalled'[i]
            /\ \A k \in DOMAIN activeClaudeControllers' : activeClaudeControllers'[k] # i]_vars

\* ---------------------------------------------------------------------- C15
\* the engine calls canUseTool in this step
Calls == Len(calls') = Len(calls) + 1

\* C15: a canUseTool call for a tool name outside the approval-requiring set
\* returns at once with allow and the input unmodified, sends no message and
\* registers nothing; a call for a name inside the set never returns that
\* immediate allow. Nothing but the name decides which.
C15_Classification ==
  [][Calls =>
       LET call == calls'[Len(calls')]
       IN /\ call.toolName \notin ApprovalRequiring =>
               /\ call.state = "returned"
               /\ call.result =
                    [behavior |-> "allow", message |-> Undefined, updatedInput |-> call.input]
               /\ UNCHANGED <<out, pendingPermissionRequests, timers>>
          /\ call.toolName \in ApprovalRequiring =>
               /\ call.settledBy # "immediate"
               /\ ~(call.state = "returned" /\ call.result.behavior = "allow")]_vars

\* a read-only tool was allowed at once and Glob was not, with a session known
C15_Witness ==
  \E c, d \in 1..Len(calls) :
    /\ calls[c].toolName = "Grep" /\ calls[c].settledBy = "immediate"
    /\ Truthy(calls[c].sessionId)
    /\ calls[d].toolName = "Glob" /\ calls[d].state = "pending"

\* ---------------------------------------------------------------------- C16
\* C16: a canUseTool call for an approval-requiring tool made while the
\* invocation knows no session id returns deny without failing: it sends no
\* permission-request, registers nothing, arms no timer, and the invocation
\* goes on streaming with no claude-error or claude-complete sent.
C16_NoSessionDeny ==
  [][Calls =>
       LET call == calls'[Len(calls')]
       IN (call.toolName \in ApprovalRequiring /\ ~Truthy(capturedSessionId[call.run])) =>
            /\ call.state = "returned"
            /\ call.result.behavior = "deny"
            /\ UNCHANGED <<out, pendingPermissionRequests, timers, thrown>>
            /\ pc'[call.run] = "streaming"]_vars

\* after such a deny the invocation consumed an init event and asked again
C16_Witness ==
  \E c, d \in 1..Len(calls) :
    /\ c < d
    /\ calls[c].toolName \in ApprovalRequiring /\ calls[c].settledBy = "no-session"
    /\ calls[c].result.behavior = "deny"
    /\ calls[d].run = calls[c].run /\ calls[d].state = "pending"
    /\ Truthy(capturedSessionId[calls[c].run])

\* ---------------------------------------------------------------------- C17
\* call c has a result only through the settlement of its registered request
SettledThroughRegistry(c) ==
  /\ Registered(c)
  /\ calls[c].state = "returned" =>
       /\ calls[c].settledBy \in {"response", "timeout"}
       /\ calls[c].resolveCount >= 1
  /\ calls[c].state = "pending" => calls[c].result = NoResult

\* C17: as stated, for every canUseTool call for an approval-requiring tool the
\* result is not available until a settlement (an external response or the
\* timeout) of its registered pending request has occurred.
C17_BlocksUntilDecision ==
  \A c \in 1..Len(calls) :
    calls[c].toolName \in ApprovalRequiring => SettledThroughRegistry(c)

\* C17, amended: that holds for the calls made while a session id is known; a
\* call made while none is known is denied at once and registers nothing.
C17_BlocksUntilDecisionAmended ==
  \A c \in 1..Len(calls) :
    calls[c].toolName \in ApprovalRequiring =>
      IF Truthy(calls[c].sessionId)
      THEN SettledThroughRegistry(c)
      ELSE /\ calls[c].state = "returned" /\ calls[c].settledBy = "no-session"
           /\ calls[c].result.behavior = "deny" /\ ~Registered(c)

\* one call with a session was settled by a response while another still waits
C17_Witness ==
  \E c, d \in 1..Len(calls) :
    /\ calls[c].toolName \in ApprovalRequiring /\ Truthy(calls[c].sessionId)
    /\ calls[c].state = "returned" /\ calls[c].settledBy = "response"
    /\ calls[d].toolName \in ApprovalRequiring /\ Truthy(calls[d].sessionId)
    /\ calls[d].state = "pending"

\* ---------------------------------------------------------------------- C18
\* the payloads of the claude-response messages delivered to the sink, in order
ResponsePayloads(o) ==
  LET rs == SelectSeq(o, LAMBDA m : m.type = "claude-response")
  IN [n \in 1..Len(rs) |-> [type |-> "claude-response", content |-> rs[n].data]]

\* C18: when the spawnClaude under a spawnClaudeHeadless call fails, the call
\* still returns a result: it holds every claude-response payload delivered up
\* to the failure, in order, an exit code that is not 0 (1 unless another
\* non-zero code was observed) and the last session id the invocation knew,
\* or the empty string when it knew none.
C18_HeadlessFailure ==
  \A i \in MainRuns :
    (headless[i].state # "none" /\ pc[i] = "threw") =>
      /\ headless[i].state = "done"
      /\ headless[i].result.messages = ResponsePayloads(out[i])
      /\ headless[i].result.exitCode # 0
      /\ headless[i].result.exitCode # 1 =>
           \E n \in 1..Len(out[i]) :
             /\ out[i][n].type = "claude-complete"
             /\ out[i][n].exitCode = headless[i].result.exitCode
      /\ headless[i].result.sessionId =
           (IF Truthy(capturedSessionId[i]) THEN capturedSessionId[i] ELSE "")

\* a headless run failed after an assistant event of a session it had learnt
C18_Witness ==
  \E i \in MainRuns :
    /\ headless[i].state = "done" /\ pc[i] = "threw"
    /\ headless[i].caller.resume = Undefined
    /\ Len(headless[i].result.messages) = 2
    /\ headless[i].result.sessionId = "s1"
    /\ headless[i].result.exitCode = 1

\* ---------------------------------------------------------------------- C20
\* C20: an invocation made by spawnClaudeHeadless never resumes: whatever
\* resume value the caller's options hold, spawnClaude receives none, so none
\* is forwarded to the engine and the invocation starts under a provisional
\* key with no session id of its own.
C20_HeadlessNeverResumes ==
  \A i \in MainRuns :
    headless[i].state # "none" =>
      /\ headless[i].options.resume = Undefined
      /\ resume[i] = Undefined
      /\ processKey[i] \notin SessionIds

\* ---------------------------------------------------------------------- C21
\* the messages of the well-formed records among lines, in order
WellFormed(lines) ==
  LET good == SelectSeq(lines, LAMBDA l : l.kind = "json")
  IN [n \in 1..Len(good) |-> good[n].value]

\* C21: every write to the stream of createStreamWrapper hands each
\* well-formed record of the chunk, in order, to every registered handler,
\* whatever malformed records precede it in the same write or were written
\* in an earlier write.
C21_IsolatedPerRecord ==
  [][wrapper'.written # wrapper.written =>
       LET chunk == SubSeq(wrapper'.written, Len(wrapper.written) + 1, Len(wrapper'.written))
       IN wrapper'.delivered =
            wrapper.delivered \o Deliveries(WellFormed(chunk), wrapper.handlers)]_vars

\* ---------------------------------------------------------------------- C22
\* invocation i is in flight: streaming, not aborted, no result processed
InFlight(i) == pc[i] = "streaming" /\ ~aborted[i] /\ ~doneCalled[i]

\* C22: every in-flight invocation has an entry of its own in
\* activeClaudeControllers, whatever other invocations were started, rebound,
\* completed, failed or aborted meanwhile, also when two invocations resume
\* the same session or start without one.
C22_OwnHandles ==
  \A i \in Runs : InFlight(i) => \E k \in DOMAIN activeClaudeControllers : Holds(k, i)

\* ---------------------------------------------------------------------- C23
\* what a delivered message is: its type, and for a response what it carries
Tag(m) ==
  IF m.type = "claude-response"
  THEN (IF m.data.shape = "message" THEN m.data.type ELSE "content")
  ELSE m.type
Tags(o) == [n \in 1..Len(o) |-> Tag(o[n])]
\* the messages one engine event stands for, session-created left aside
EventTags(ev) ==
  IF ev.type = "assistant" THEN <<"assistant", "content">>
  ELSE IF ev.type = "user" /\ ev.content.kind = "array" /\ Len(ev.content.items) > 0
       THEN <<"tool_result">>
       ELSE IF ev.type = "result" THEN <<"claude-complete">> ELSE <<>>
RECURSIVE StreamTags(_, _)
StreamTags(script, n) ==
  IF n = 0 THEN <<>> ELSE StreamTags(script, n - 1) \o EventTags(script[n])

\* C23: the messages delivered to the sink, session-created left aside, are
\* the messages of the first consumed event, then those of the second, and so
\* on (for an assistant event the converted message, then its content array),
\* followed by claude-error and claude-complete when the invocation failed;
\* and the headless collector holds the payloads of the claude-response
\* messages in that same order.
C23_ArrivalOrder ==
  \A i \in MainRuns :
    (engine[i].scripted /\ pc[i] # "idle") =>
      /\ Tags(SelectSeq(out[i], LAMBDA m : m.type # "session-created")) =
           StreamTags(engine[i].script, engine[i].pos) \o
           (IF pc[i] = "threw" THEN <<"claude-error", "claude-complete">> ELSE <<>>)
      /\ headless[i].state # "none" =>
           headless[i].collector.messages = ResponsePayloads(out[i])

\* a headless run consumed a tool result and then an assistant event
C23_Witness ==
  \E i \in MainRuns :
    /\ engine[i].scripted /\ engine[i].pos >= 2
    /\ headless[i].state = "done"
    /\ Tags(out[i]) = <<"tool_result", "assistant", "content">>
    /\ Len(headless[i].result.messages) = 3

\* ---------------------------------------------------------------------- C24
\* invocation i consumes the next event of its script in this step
Consumes(i) == engine[i].scripted /\ engine'[i].pos = engine[i].pos + 1
\* the claude-response messages this step delivered to invocation i's sink
NewResponses(i) ==
  SelectSeq(SubSeq(out'[i], Len(out[i]) + 1, Len(out'[i])),
            LAMBDA m : m.type = "claude-response")
\* the data of a claude-response: a converted message or a content array
MessageData(type, content, sid) ==
  [shape |-> "message", type |-> type, content |-> content, session_id |-> sid]
ArrayData(content) ==
  [shape |-> "content", type |-> Undefined, content |-> content, session_id |-> Undefined]
Present(content) == content.kind # "undefined"

\* C24: the step that consumes an engine event delivers claude-response
\* messages only for an assistant turn (the converted message, and a second
\* message with the content when content is present) and for a user turn
\* whose content is a non-empty array (one message of type tool_result with
\* that content unchanged); every other event delivers none, and what is
\* delivered is always a converted message or a content array, never the
\* engine's event.
C24_DropRule ==
  [][\A i \in MainRuns :
       Consumes(i) =>
         LET ev == engine[i].script[engine'[i].pos]
             new == NewResponses(i)
         IN /\ ev.type = "assistant" =>
                 /\ Len(new) = (IF Present(ev.content) THEN 2 ELSE 1)
                 /\ new[1].data = MessageData("assistant", ev.content, ev.session_id)
                 /\ Present(ev.content) => new[2].data = ArrayData(ev.content)
            /\ (ev.type = "user" /\ ev.content.kind = "array" /\ Len(ev.content.items) > 0) =>
                 /\ Len(new) = 1
                 /\ new[1].data = MessageData("tool_result", ev.content, Undefined)
            /\ ~(\/ ev.type = "assistant"
                 \/ ev.type = "user" /\ ev.content.kind = "array" /\ Len(ev.content.items) > 0) =>
                 new = <<>>
            /\ \A n \in 1..Len(new) :
                 /\ new[n].data.shape \in {"message", "content"}
                 /\ new[n].sessionId = capturedSessionId[i]]_vars

\* user turns with a string and with an empty array were dropped, and an
\* assistant turn without content gave one message
C24_Witness ==
  \E i \in MainRuns :
    /\ engine[i].scripted /\ engine[i].pos = 3
    /\ engine[i].script[1].type = "user" /\ engine[i].script[1].content = StringContent
    /\ engine[i].script[2].type = "user" /\ engine[i].script[2].content = Arr(<<>>)
    /\ engine[i].script[3].type = "assistant" /\ engine[i].script[3].content = NoContent
    /\ Len(out[i]) = 1

\* ---------------------------------------------------------------------- C25
Completes(i) == {n \in 1..Len(out[i]) : out[i][n].type = "claude-complete"}

\* C25: an invocation delivers at most one claude-complete message to its
\* sink, whatever events the engine emits and wherever it fails.
C25_AtMostOneComplete ==
  \A i \in MainRuns : Cardinality(Completes(i)) <= 1

\* ---------------------------------------------------------------------- C26
KeysOf(i) == {k \in DOMAIN activeClaudeControllers : activeClaudeControllers[k] = i}

\* C26: activeClaudeControllers never maps more than one key to an
\* invocation's controller, and while the invocation is in flight that key is
\* its provisional key before any rebind and its current session id after
\* one, however many init events with different session ids it consumed.
C26_OneKey ==
  \A i \in MainRuns :
    /\ Cardinality(KeysOf(i)) <= 1
    /\ InFlight(i) =>
         KeysOf(i) = {IF sessionCreatedSent[i] THEN capturedSessionId[i] ELSE processKey[i]}

\* ---------------------------------------------------------------------- C27
\* C27: a HeadlessResult with exitCode 0 is returned only when the collector
\* observed a claude-complete message with exitCode 0 and spawnClaude did not
\* fail; a run whose engine stream ends without a result event does not
\* report exit code 0.
C27_ZeroOnlyOnSuccess ==
  \A i \in MainRuns :
    (headless[i].state = "done" /\ headless[i].result.exitCode = 0) =>
      /\ pc[i] = "returned"
      /\ \E n \in 1..Len(out[i]) :
           out[i][n].type = "claude-complete" /\ out[i][n].exitCode = 0

====
